---- MODULE Spec2Model ----
(***************************************************************************)
(* The scene builder of textmation (textmation/scenebuilder.py) and the    *)
(* drawable element types it instantiates (textmation/elements/            *)
(* drawables.py), as a state machine.                                      *)
(*                                                                         *)
(* The builder is a recursive descent over a syntax tree.  The recursion   *)
(* is kept in `frames`: one frame per node whose children are being        *)
(* walked.  Each visitor (_build_Include, _build_Template, _build_Create,  *)
(* _build_Define, _build_Assign) is one action; the code that runs when a  *)
(* loop over children ends is the matching return action.                  *)
(***************************************************************************)
EXTENDS Integers, Sequences, FiniteSets, TLC

VARIABLES
    templates,      \* SceneBuilder.templates: name -> element type or Template node
    elems,          \* every Element constructed so far, by identity (index)
    _elements,      \* SceneBuilder._elements: stack of active elements
    _types,         \* SceneBuilder._types: stack of property types
    search_paths,   \* SceneBuilder.search_paths
    _including,     \* SceneBuilder._including
    _included,      \* SceneBuilder._included
    files,          \* text of the files read so far (the file system)
    built,          \* how often each file's syntax tree has been built
    frames,         \* positions of the recursive descent
    pc,             \* "idle", "building", "returned" or "raised"
    err,            \* kind of the error raised, "" when none
    after,          \* the error's "after" elaboration: the paths of a cycle, or
                    \* the list of the files an include tried
    op,             \* the node the last step visited, and its outcome
    log,            \* lifecycle hooks and directives, in the order they ran
    drawn           \* number of nodes the documents have supplied so far

vars == <<templates, elems, _elements, _types, search_paths, _including,
          _included, files, built, frames, pc, err, after, op, log, drawn>>

(***************************************************************************)
(* Bounds of the model.                                                    *)
(***************************************************************************)
\* nodes a document supplies in one build
MaxDirectives == 4
\* children of an included file's root
MaxFileLen == 1
\* elements constructed in one build
MaxElems == 3
\* depth at which the interpreter gives up a recursion (RecursionError)
RecursionLimit == 6

(***************************************************************************)
(* Names.                                                                  *)
(***************************************************************************)
\* the concrete element types of Element.list_element_types() that are modelled
ElementTypes == {"Scene", "Drawable", "Rectangle", "Circle", "Image", "Animation"}
\* the subclasses of Drawable
DrawableTypes == {"Drawable", "Rectangle", "Circle", "Image"}
\* names a document may give its templates
UserTemplates == {"T", "U"}
\* a name that nothing declares
Undeclared == "Nope"
TemplateNames == ElementTypes \cup UserTemplates \cup {Undeclared}

\* the directory SceneBuilder starts its search in, as a path relative to it
_scenes_dir == <<>>
\* the files that exist, as absolute paths (sequences of components)
AbsFiles == {<<"a">>, <<"lib", "a">>, <<"lib", "b">>}
\* the dotted paths an include directive may name
IncludePaths == {<<"a">>, <<"b">>, <<"lib", "a">>}

dirname(filename) == SubSeq(filename, 1, Len(filename) - 1)
join(dirpath, path) == dirpath \o path
isfile(filename) == filename \in AbsFiles

Last(s) == s[Len(s)]
Front(s) == SubSeq(s, 1, Len(s) - 1)
reversed(s) == [i \in 1..Len(s) |-> s[Len(s) + 1 - i]]

(***************************************************************************)
(* Syntax nodes (textmation.parser).                                       *)
(***************************************************************************)
Include(path) == [node |-> "Include", path |-> path]
Template(name, inherit, children) ==
    [node |-> "Template", name |-> name, inherit |-> inherit, children |-> children]
\* open: the node's further children are supplied as the walk reaches them
Create(element, children, open) ==
    [node |-> "Create", element |-> element, name |-> "", children |-> children,
     open |-> open]
Scene(children, open) ==
    [node |-> "Scene", element |-> "Scene", name |-> "", children |-> children,
     open |-> open]
\* a create node that names its element
Named(create, name) == [create EXCEPT !.name = name]
Define(name, value) == [node |-> "Define", name |-> name, value |-> value]
Assign(name, value) == [node |-> "Assign", name |-> name, value |-> value]
NumberNode(value, unit) == [node |-> "Number", value |-> value, unit |-> unit]
StringNode(string) == [node |-> "String", string |-> string]
Name(name) == [node |-> "Name", name |-> name]
\* an expression that evaluates to the element e
ElementNode(e) == [node |-> "Element", e |-> e]
MemberAccess(value, member) == [node |-> "MemberAccess", value |-> value, member |-> member]
BinOpNode(o, lhs, rhs) == [node |-> "BinOp", op |-> o, lhs |-> lhs, rhs |-> rhs]

(***************************************************************************)
(* Values (textmation.datatypes) and properties (textmation.elements).     *)
(***************************************************************************)
Number(v) == [k |-> "Number", v |-> v]
Percentage(v) == [k |-> "Percentage", v |-> v]
String(s) == [k |-> "String", s |-> s]
Vec4(r, g, b, a) == [k |-> "Vec4", c |-> <<r, g, b, a>>]
BinOp(o, lhs, rhs) == [k |-> "BinOp", op |-> o, lhs |-> lhs, rhs |-> rhs]
\* the property object `element.get(name)` returns: element identity and name
Property(e, n) == [k |-> "Property", e |-> e, n |-> n]
\* an exception in place of a value
Raise(kind) == [k |-> "Raise", exc |-> kind]
\* an Element as the value of an expression
ElementValue(e) == [k |-> "Element", e |-> e]
IsRaise(v) == v.k = "Raise"

\* an entry of an element's property table
Prop(value, type, relative, readonly, constant) ==
    [value |-> value, type |-> type, relative |-> relative,
     readonly |-> readonly, constant |-> constant]

\* a constructed element after on_init
NewElement(type) ==
    [type |-> type, parent |-> 0, children |-> <<>>, elements |-> <<>>,
     animations |-> <<>>, props |-> <<>>]

(***************************************************************************)
(* Element (textmation.elements): the property table and the tree.         *)
(***************************************************************************)
HasProp(els, e, name) == name \in DOMAIN els[e].props

\* the type a value statically carries ("Unknown" for an expression)
StaticType(value) ==
    IF value.k \in {"Property", "BinOp"} THEN "Unknown" ELSE value.k

\* the outcome of an operation that may raise: the exception's kind ("" when it
\* returned) and the tree it leaves
Outcome(kind, els) == [raise |-> kind, els |-> els]

\* Element.define: insert, or ElementPropertyDefinedError when the name exists
define(els, e, name, value, relative, readonly, constant) ==
    IF HasProp(els, e, name) THEN Outcome("PropertyDefined", els)
    ELSE Outcome("", [els EXCEPT ![e].props =
            (name :> Prop(value, StaticType(value), relative, readonly, constant)) @@ @])

\* Element.get: the property object, or KeyError
get(els, e, name) ==
    IF HasProp(els, e, name) THEN Property(e, name) ELSE Raise("KeyError")

\* the property objects an expression refers to
RECURSIVE Refs(_)
Refs(value) ==
    CASE value.k = "Property" -> {<<value.e, value.n>>}
      [] value.k = "BinOp" -> Refs(value.lhs) \cup Refs(value.rhs)
      [] OTHER -> {}

\* every (element, property) pair of the tree
Pairs(els) == UNION {{<<e, n>> : n \in DOMAIN els[e].props} : e \in 1..Len(els)}

\* the pairs the stored expression of pair pr refers to
RefsOf(els, pr) == Refs(els[pr[1]].props[pr[2]].value)

\* the simple reference paths that start at `path` and come back to its first pair
RECURSIVE CyclesFrom(_, _)
CyclesFrom(els, path) ==
    UNION { IF nx = path[1] THEN {Append(path, nx)}
            ELSE IF \E i \in 1..Len(path) : path[i] = nx THEN {}
            ELSE CyclesFrom(els, Append(path, nx))
          : nx \in RefsOf(els, Last(path)) }

\* the reference cycles through pair pr
Cycles(els, pr) == CyclesFrom(els, <<pr>>)

\* whether a new value fits the type the property was defined with
TypeCompatible(prop, value) ==
    LET t == StaticType(value) IN
        \/ t = "Unknown"
        \/ t = prop.type
        \/ prop.relative # "" /\ {t, prop.type} \subseteq {"Number", "Percentage"}

\* Element.set: store the value, or raise and leave the table as it is
set(els, e, name, value) ==
    IF ~HasProp(els, e, name) THEN Outcome("KeyError", els)
    ELSE LET prop == els[e].props[name]
             stored == [els EXCEPT ![e].props[name].value = value]
         IN  IF prop.readonly THEN Outcome("Readonly", els)
             ELSE IF prop.constant THEN Outcome("Constant", els)
             ELSE IF Cycles(stored, <<e, name>>) # {} THEN Outcome("CircularReference", els)
             ELSE IF ~TypeCompatible(prop, value) THEN Outcome("TypeError", els)
             ELSE Outcome("", stored)

\* CircularReferenceError.paths for the set that was refused
paths(els, e, name, value) ==
    Cycles([els EXCEPT ![e].props[name].value = value], <<e, name>>)

\* Element.add: the child joins the parent's children and learns its parent
Element_add(els, parent, child) ==
    [els EXCEPT ![parent].children = Append(@, child), ![child].parent = parent]

(***************************************************************************)
(* Evaluation of a value in the tree (textmation.datatypes, .elements).    *)
(***************************************************************************)
Units == {"Percentage", "Angle", "Time"}

\* a binary operator applied to two evaluated operands, by their units
apply(o, l, r) ==
    IF IsRaise(l) THEN l
    ELSE IF IsRaise(r) THEN r
    ELSE IF o \in {"/"} /\ r.k = "Number" /\ r.v = 0 THEN Raise("ZeroDivision")
    ELSE IF l.k = "Number" /\ r.k = "Number" THEN
        Number(CASE o = "+" -> l.v + r.v [] o = "-" -> l.v - r.v
                 [] o = "*" -> l.v * r.v [] o = "/" -> l.v \div r.v)
    ELSE IF l.k \in Units /\ r.k = l.k /\ o \in {"+", "-"} THEN
        [l EXCEPT !.v = IF o = "+" THEN l.v + r.v ELSE l.v - r.v]
    ELSE IF l.k \in Units /\ r.k = "Number" /\ o \in {"*", "/"} THEN
        [l EXCEPT !.v = IF o = "*" THEN l.v * r.v ELSE l.v \div r.v]
    ELSE Raise("TypeError")

\* eval(els, value, stack): the value of an expression, with its unit; `stack`
\* holds the pairs whose evaluation is in progress
RECURSIVE eval(_, _, _)
eval(els, value, stack) ==
    CASE value.k = "Property" ->
            LET pr == <<value.e, value.n>> IN
                IF \E i \in 1..Len(stack) : stack[i] = pr THEN Raise("CircularReference")
                ELSE eval(els, els[value.e].props[value.n].value, Append(stack, pr))
      [] value.k = "BinOp" ->
            apply(value.op, eval(els, value.lhs, stack), eval(els, value.rhs, stack))
      [] OTHER -> value

\* the pixels of property `name` of element e: its value, a Percentage taken of
\* what the property of the parent that the relative tag names resolves to
RECURSIVE resolve(_, _, _)
resolve(els, e, name) ==
    LET prop == els[e].props[name]
        parent == els[e].parent
        v == eval(els, Property(e, name), <<>>)
    IN  IF v.k = "Percentage" /\ prop.relative # "" THEN
            IF parent = 0 \/ ~HasProp(els, parent, prop.relative) THEN Raise("KeyError")
            ELSE LET base == resolve(els, parent, prop.relative) IN
                 IF IsRaise(base) THEN base
                 ELSE IF base.k # "Number" THEN Raise("TypeError")
                 ELSE Number((v.v * base.v) \div 100)
        ELSE v

(***************************************************************************)
(* The element types (textmation/elements/drawables.py).                   *)
(***************************************************************************)
\* one statement of an on_ready hook: self.define(...) or self.set(...)
DefineStmt(name, value, relative, readonly, constant) ==
    [stmt |-> "define", name |-> name, value |-> value, relative |-> relative,
     readonly |-> readonly, constant |-> constant]
SetStmt(name, value) ==
    [stmt |-> "set", name |-> name, value |-> value, relative |-> "",
     readonly |-> FALSE, constant |-> FALSE]

\* self.parent.children.index(self)
IndexInParent(els, e) ==
    LET ch == els[els[e].parent].children IN
        (CHOOSE i \in 1..Len(ch) : ch[i] = e /\ \A j \in 1..(i - 1) : ch[j] # e) - 1

\* the width and height a Scene declares for itself
SceneWidth == 200
SceneHeight == 100

Scene_on_ready(els, e) ==
    << DefineStmt("width", Number(SceneWidth), "", FALSE, FALSE),
       DefineStmt("height", Number(SceneHeight), "", FALSE, FALSE) >>

\* Drawable.on_ready with width declared relative to the parent's height
Drawable_on_ready_width_of_height(els, e) ==
    << DefineStmt("index", Number(IndexInParent(els, e)), "", TRUE, TRUE),
       DefineStmt("x", Number(0), "width", FALSE, FALSE),
       DefineStmt("y", Number(0), "height", FALSE, FALSE),
       DefineStmt("width", Percentage(100), "height", FALSE, FALSE),
       DefineStmt("height", Percentage(100), "height", FALSE, FALSE) >>

Drawable_on_ready(els, e) ==
    << DefineStmt("index", Number(IndexInParent(els, e)), "", TRUE, TRUE),
       DefineStmt("x", Number(0), "width", FALSE, FALSE),
       DefineStmt("y", Number(0), "height", FALSE, FALSE),
       DefineStmt("width", Percentage(100), "width", FALSE, FALSE),
       DefineStmt("height", Percentage(100), "height", FALSE, FALSE) >>

Rectangle_on_ready(els, e) ==
    Drawable_on_ready(els, e) \o
    << DefineStmt("color", Vec4(255, 255, 255, 255), "", FALSE, FALSE),
       DefineStmt("fill", Property(e, "color"), "", FALSE, FALSE),
       DefineStmt("outline", Vec4(0, 0, 0, 0), "", FALSE, FALSE),
       DefineStmt("outline_width", Number(1), "", FALSE, FALSE) >>

\* Circle.on_ready with the centre's 50% written as the plain number 50
Circle_on_ready_plain_center(els, e) ==
    Drawable_on_ready(els, e) \o
    << DefineStmt("center_x", BinOp("-", Number(50),
                      BinOp("/", Property(e, "width"), Number(2))), "width", FALSE, FALSE),
       DefineStmt("center_y", BinOp("-", Number(50),
                      BinOp("/", Property(e, "height"), Number(2))), "height", FALSE, FALSE),
       DefineStmt("diameter", Percentage(100), "width", FALSE, FALSE),
       DefineStmt("radius", BinOp("/", Property(e, "diameter"), Number(2)), "width", FALSE, FALSE),
       SetStmt("x", BinOp("-", Property(e, "center_x"),
                      BinOp("/", Property(e, "width"), Number(2)))),
       SetStmt("y", BinOp("-", Property(e, "center_y"),
                      BinOp("/", Property(e, "height"), Number(2)))),
       SetStmt("width", BinOp("*", Property(e, "radius"), Number(2))),
       SetStmt("height", BinOp("*", Property(e, "radius"), Number(2))),
       DefineStmt("color", Vec4(255, 255, 255, 255), "", FALSE, FALSE),
       DefineStmt("fill", Property(e, "color"), "", FALSE, FALSE),
       DefineStmt("outline", Vec4(0, 0, 0, 0), "", FALSE, FALSE),
       DefineStmt("outline_width", Number(1), "", FALSE, FALSE) >>

\* Circle.on_ready with radius declared as a percentage of its own
Circle_on_ready_own_radius(els, e) ==
    Drawable_on_ready(els, e) \o
    << DefineStmt("center_x", BinOp("-", Percentage(50),
                      BinOp("/", Property(e, "width"), Number(2))), "width", FALSE, FALSE),
       DefineStmt("center_y", BinOp("-", Percentage(50),
                      BinOp("/", Property(e, "height"), Number(2))), "height", FALSE, FALSE),
       DefineStmt("diameter", Percentage(100), "width", FALSE, FALSE),
       DefineStmt("radius", Percentage(50), "width", FALSE, FALSE),
       SetStmt("x", BinOp("-", Property(e, "center_x"),
                      BinOp("/", Property(e, "width"), Number(2)))),
       SetStmt("y", BinOp("-", Property(e, "center_y"),
                      BinOp("/", Property(e, "height"), Number(2)))),
       SetStmt("width", BinOp("*", Property(e, "radius"), Number(2))),
       SetStmt("height", BinOp("*", Property(e, "radius"), Number(2))),
       DefineStmt("color", Vec4(255, 255, 255, 255), "", FALSE, FALSE),
       DefineStmt("fill", Property(e, "color"), "", FALSE, FALSE),
       DefineStmt("outline", Vec4(0, 0, 0, 0), "", FALSE, FALSE),
       DefineStmt("outline_width", Number(1), "", FALSE, FALSE) >>

Circle_on_ready(els, e) ==
    Drawable_on_ready(els, e) \o
    << DefineStmt("center_x", BinOp("-", Percentage(50),
                      BinOp("/", Property(e, "width"), Number(2))), "width", FALSE, FALSE),
       DefineStmt("center_y", BinOp("-", Percentage(50),
                      BinOp("/", Property(e, "height"), Number(2))), "height", FALSE, FALSE),
       DefineStmt("diameter", Percentage(100), "width", FALSE, FALSE),
       DefineStmt("radius", BinOp("/", Property(e, "diameter"), Number(2)), "width", FALSE, FALSE),
       SetStmt("x", BinOp("-", Property(e, "center_x"),
                      BinOp("/", Property(e, "width"), Number(2)))),
       SetStmt("y", BinOp("-", Property(e, "center_y"),
                      BinOp("/", Property(e, "height"), Number(2)))),
       SetStmt("width", BinOp("*", Property(e, "radius"), Number(2))),
       SetStmt("height", BinOp("*", Property(e, "radius"), Number(2))),
       DefineStmt("color", Vec4(255, 255, 255, 255), "", FALSE, FALSE),
       DefineStmt("fill", Property(e, "color"), "", FALSE, FALSE),
       DefineStmt("outline", Vec4(0, 0, 0, 0), "", FALSE, FALSE),
       DefineStmt("outline_width", Number(1), "", FALSE, FALSE) >>

Image_on_ready(els, e) ==
    Drawable_on_ready(els, e) \o
    << DefineStmt("filename", String(""), "", FALSE, TRUE) >>

\* the statements of the on_ready hook of element e's type
on_ready_stmts(els, e) ==
    CASE els[e].type = "Scene" -> Scene_on_ready(els, e)
      [] els[e].type = "Drawable" -> Drawable_on_ready(els, e)
      [] els[e].type = "Rectangle" -> Rectangle_on_ready(els, e)
      [] els[e].type = "Circle" -> Circle_on_ready(els, e)
      [] els[e].type = "Image" -> Image_on_ready(els, e)
      [] OTHER -> <<>>

\* run the statements in order; the first exception ends the hook
RECURSIVE run_stmts(_, _, _)
run_stmts(els, e, stmts) ==
    IF stmts = <<>> THEN Outcome("", els)
    ELSE LET s == Head(stmts)
             r == IF s.stmt = "define"
                  THEN define(els, e, s.name, s.value, s.relative, s.readonly, s.constant)
                  ELSE set(els, e, s.name, s.value)
         IN  IF r.raise # "" THEN r ELSE run_stmts(r.els, e, Tail(stmts))

on_ready(els, e) == run_stmts(els, e, on_ready_stmts(els, e))

\* BaseDrawable.add: Element.add, then the child is filed by its kind
BaseDrawable_add(els, parent, child) ==
    LET added == Element_add(els, parent, child) IN
        IF els[child].type \in DrawableTypes
        THEN Outcome("", [added EXCEPT ![parent].elements = Append(@, child)])
        ELSE IF els[child].type = "Animation"
        THEN Outcome("", [added EXCEPT ![parent].animations = Append(@, child)])
        ELSE Outcome("NotImplementedError", added)

(***************************************************************************)
(* SceneBuilder (textmation/scenebuilder.py): helpers.                     *)
(***************************************************************************)
\* an entry of SceneBuilder.templates
NoTemplate == [kind |-> "none", inherit |-> "", children |-> <<>>]
ElementType == [kind |-> "type", inherit |-> "", children |-> <<>>]
TemplateEntry(template) ==
    [kind |-> "template", inherit |-> template.inherit, children |-> template.children]

\* template.inherit or "Drawable"
InheritOf(name) == IF templates[name].inherit = "" THEN "Drawable" ELSE templates[name].inherit

\* _get_element_type at recursion depth `depth`: the concrete type, or the exception
RECURSIVE _get_element_type(_, _)
_get_element_type(name, depth) ==
    IF depth > RecursionLimit THEN [raise |-> "RecursionError", type |-> ""]
    ELSE IF templates[name].kind = "none" THEN [raise |-> "UndefinedTemplate", type |-> ""]
    ELSE IF templates[name].kind = "template" THEN _get_element_type(InheritOf(name), depth + 1)
    ELSE [raise |-> "", type |-> name]

\* the Template entries _apply_template passes through, the named one first
RECURSIVE TemplateChain(_)
TemplateChain(name) ==
    IF templates[name].kind = "template" THEN <<name>> \o TemplateChain(InheritOf(name))
    ELSE <<>>

\* _get_property stepping to the parent before it looks
RECURSIVE _get_property_parent_first(_, _, _)
_get_property_parent_first(els, element, name) ==
    IF element = 0 \/ els[element].parent = 0 THEN Raise("UndefinedProperty")
    ELSE IF HasProp(els, els[element].parent, name) THEN get(els, els[element].parent, name)
    ELSE _get_property_parent_first(els, els[element].parent, name)

\* _get_property: the property of the nearest element, from `element` upwards,
\* that has the name
RECURSIVE _get_property(_, _, _)
_get_property(els, element, name) ==
    IF element = 0 THEN Raise("UndefinedProperty")
    ELSE IF HasProp(els, element, name) THEN get(els, element, name)
    ELSE _get_property(els, els[element].parent, name)

\* _find_scene_file: the first existing file, latest search path first
_find_scene_file(path) ==
    LET tried == reversed(search_paths)
        hits == {i \in 1..Len(tried) : isfile(join(tried[i], path))}
    IN  IF hits = {} THEN [raise |-> "FileNotFoundError", filename |-> <<>>]
        ELSE [raise |-> "", filename |->
                join(tried[CHOOSE i \in hits : \A j \in hits : i <= j], path)]

\* the lines _find_scene_file puts after "Tried...": the file it looked for
\* in each search path, latest first
Tried(path) ==
    LET tried == reversed(search_paths)
    IN  [i \in 1..Len(tried) |-> join(tried[i], path)]

_is_including == Len(_including) > 0

(***************************************************************************)
(* The walk.                                                               *)
(***************************************************************************)
Top == frames[Len(frames)]

Frame(k, elem, name, todo, open) ==
    [k |-> k, elem |-> elem, name |-> name, todo |-> todo, open |-> open]

\* the nodes the walk may visit next, D being what a document may supply: the
\* next child already on file, or a child the document supplies now
Pending(D) ==
    IF pc # "building" \/ frames = <<>> THEN {}
    ELSE IF Top.todo # <<>> THEN {Head(Top.todo)}
    ELSE IF Top.open /\ drawn < MaxDirectives THEN D
    ELSE {}

\* the frames once the walk has moved past the pending node
Advanced == [frames EXCEPT ![Len(frames)].todo = IF @ = <<>> THEN @ ELSE Tail(@)]
Drawn == IF Top.todo = <<>> THEN drawn + 1 ELSE drawn

Visited(node, outcome) == [node |-> node, outcome |-> outcome]

\* raise: the exception leaves through every frame; nothing is cleaned up
Fail(kind, node, elaboration) ==
    /\ pc' = "raised"
    /\ err' = kind
    /\ after' = elaboration
    /\ frames' = <<>>
    /\ op' = Visited(node, kind)

\* a visitor returned
Done(node, outcome, newframes) ==
    /\ frames' = newframes
    /\ op' = Visited(node, outcome)
    /\ UNCHANGED <<pc, err, after>>

(***************************************************************************)
(* include                                                                 *)
(***************************************************************************)
\* what an included file's root may hold
FileChildren ==
    {Include(p) : p \in {<<"a">>, <<"b">>}}
    \cup {Template("T", "", <<>>), Create("Rectangle", <<>>, FALSE),
          Define("a", NumberNode(1, "")), Assign("width", NumberNode(7, ""))}

RECURSIVE SeqsUpTo(_, _)
SeqsUpTo(S, n) ==
    IF n = 0 THEN {<<>>}
    ELSE SeqsUpTo(S, n - 1) \cup {Append(q, x) : q \in {r \in SeqsUpTo(S, n - 1) : Len(r) = n - 1}, x \in S}

FileTexts == SeqsUpTo(FileChildren, MaxFileLen)
Unread == <<[node |-> "Unread"]>>

\* _include without its test of self._included
_include_again(filename, include) ==
    IF filename \in {_including[i] : i \in 1..Len(_including)}
    THEN /\ Done(include, "skipped", Advanced)
         /\ UNCHANGED <<search_paths, _including, _included, files, built>>
    ELSE /\ search_paths' = Append(search_paths, dirname(filename))
         /\ _including' = Append(_including, filename)
         /\ \E text \in (IF files[filename] = Unread THEN FileTexts ELSE {files[filename]}) :
              /\ files' = [files EXCEPT ![filename] = text]
              /\ Done(include, "building", Append(Advanced, Frame("include", 0, filename, text, FALSE)))
         /\ built' = [built EXCEPT ![filename] = @ + 1]
         /\ UNCHANGED _included

\* _include without its test of self._including
_include_reenters(filename, include) ==
    IF filename \in _included
    THEN /\ Done(include, "skipped", Advanced)
         /\ UNCHANGED <<search_paths, _including, _included, files, built>>
    ELSE /\ search_paths' = Append(search_paths, dirname(filename))
         /\ _including' = Append(_including, filename)
         /\ \E text \in (IF files[filename] = Unread THEN FileTexts ELSE {files[filename]}) :
              /\ files' = [files EXCEPT ![filename] = text]
              /\ Done(include, "building", Append(Advanced, Frame("include", 0, filename, text, FALSE)))
         /\ built' = [built EXCEPT ![filename] = @ + 1]
         /\ UNCHANGED _included

\* _include leaving search_paths as it finds it
_include_no_search_path(filename, include) ==
    IF filename \in {_including[i] : i \in 1..Len(_including)} \/ filename \in _included
    THEN /\ Done(include, "skipped", Advanced)
         /\ UNCHANGED <<search_paths, _including, _included, files, built>>
    ELSE /\ _including' = Append(_including, filename)
         /\ \E text \in (IF files[filename] = Unread THEN FileTexts ELSE {files[filename]}) :
              /\ files' = [files EXCEPT ![filename] = text]
              /\ Done(include, "building", Append(Advanced, Frame("include", 0, filename, text, FALSE)))
         /\ built' = [built EXCEPT ![filename] = @ + 1]
         /\ UNCHANGED <<search_paths, _included>>

\* _include: skip a file that is being or has been included; else read and build it
_include(filename, include) ==
    IF filename \in {_including[i] : i \in 1..Len(_including)} \/ filename \in _included
    THEN /\ Done(include, "skipped", Advanced)
         /\ UNCHANGED <<search_paths, _including, _included, files, built>>
    ELSE /\ search_paths' = Append(search_paths, dirname(filename))
         /\ _including' = Append(_including, filename)
         /\ \E text \in (IF files[filename] = Unread THEN FileTexts ELSE {files[filename]}) :
              /\ files' = [files EXCEPT ![filename] = text]
              /\ Done(include, "building", Append(Advanced, Frame("include", 0, filename, text, FALSE)))
         /\ built' = [built EXCEPT ![filename] = @ + 1]
         /\ UNCHANGED _included

_build_Include(include) ==
    /\ include.node = "Include"
    /\ drawn' = Drawn
    /\ UNCHANGED <<templates, elems, _elements, _types, log>>
    /\ LET found == _find_scene_file(include.path) IN
         IF found.raise # ""
         THEN /\ Fail("IncludeNotFound", include, {Tried(include.path)})
              /\ UNCHANGED <<search_paths, _including, _included, files, built>>
         ELSE _include(found.filename, include)

\* _include, after self._build(parse(string)) returned
IncludeReturn ==
    /\ pc = "building" /\ frames # <<>>
    /\ Top.k = "include" /\ Top.todo = <<>>
    /\ _including' = Front(_including)
    /\ _included' = _included \cup {Top.name}
    /\ search_paths' = Front(search_paths)
    /\ Done(Include(Top.name), "included", Front(frames))
    /\ UNCHANGED <<templates, elems, _elements, _types, files, built, log, drawn>>

\* _build_Scene building the create children of an included file's root too
_build_Scene_builds(child) ==
    /\ _is_including
    /\ Top.k = "include"
    /\ child.node \notin {"Include", "Template"}
    /\ Done(child, "", Advanced)
    /\ drawn' = Drawn
    /\ elems' = IF child.node = "Create"
                THEN Element_add(Append(elems, NewElement(child.element)),
                                 Last(_elements), Len(elems) + 1)
                ELSE elems
    /\ UNCHANGED <<templates, _elements, _types, search_paths, _including,
                   _included, files, built, log>>

\* _build_Scene for the root of the document while _including holds a file,
\* which a build that raised inside an include has left there: the root is
\* walked as the root of an included file is
_build_Scene_including(scene) ==
    /\ scene.node = "Scene"
    /\ _is_including
    /\ Top.k = "document"
    /\ Done(scene, "including", Append(Advanced, Frame("root", 0, "", scene.children, scene.open)))
    /\ UNCHANGED <<templates, elems, _elements, _types, search_paths, _including,
                   _included, files, built, log, drawn>>

\* _build_Scene while including: a child that is no Include and no Template
_build_Scene_skip(child) ==
    /\ _is_including
    /\ Top.k \in {"include", "root"}
    /\ child.node \notin {"Include", "Template"}
    /\ Done(child, "skipped", Advanced)
    /\ drawn' = Drawn
    /\ UNCHANGED <<templates, elems, _elements, _types, search_paths, _including,
                   _included, files, built, log>>

(***************************************************************************)
(* template                                                                *)
(***************************************************************************)
\* _build_Template without its test of self.templates
_build_Template_overwrites(template) ==
    /\ template.node = "Template"
    /\ drawn' = Drawn
    /\ templates' = [templates EXCEPT ![template.name] = TemplateEntry(template)]
    /\ Done(template, "", Advanced)
    /\ UNCHANGED <<elems, _elements, _types, search_paths, _including, _included,
                   files, built, log>>

_build_Template(template) ==
    /\ template.node = "Template"
    /\ drawn' = Drawn
    /\ IF templates[template.name].kind # "none"
       THEN /\ Fail("Redeclaration", template, {})
            /\ UNCHANGED templates
       ELSE /\ templates' = [templates EXCEPT ![template.name] = TemplateEntry(template)]
            /\ Done(template, "", Advanced)
    /\ UNCHANGED <<elems, _elements, _types, search_paths, _including, _included,
                   files, built, log>>

(***************************************************************************)
(* values of define and assign                                             *)
(***************************************************************************)
AngleUnits == {"deg", "rad"}
TimeUnits == {"s", "ms"}
\* the enum and flag types (drawables.py) and their members
EnumTypes == {"TextAnchor", "TextAlignment"}
EnumMembers(type) ==
    CASE type = "TextAnchor" ->
            {"Left", "CenterX", "Right", "Top", "CenterY", "Bottom", "Center", "Default"}
      [] type = "TextAlignment" -> {"Left", "Center", "Right", "Default"}
      [] OTHER -> {}

\* type.enum[name]: the member the name stands for; Default is another name of
\* Center in TextAnchor and of Left in TextAlignment
EnumMember(type, name) ==
    IF name # "Default" THEN name
    ELSE IF type = "TextAnchor" THEN "Center" ELSE "Left"

_build_Number(number) ==
    IF number.unit = "" THEN Number(number.value)
    ELSE IF number.unit = "%" THEN Percentage(number.value)
    ELSE IF number.unit \in AngleUnits THEN [k |-> "Angle", v |-> number.value, unit |-> number.unit]
    ELSE IF number.unit \in TimeUnits THEN [k |-> "Time", v |-> number.value, unit |-> number.unit]
    ELSE Raise("UnexpectedUnit")

_build_String(string) == String(string.string)

\* _build_Name with `types` as the type stack: an enum member when the active
\* type is an enum that has the name, else the property found from the active element
_build_Name(els, name, types) ==
    IF types # <<>> /\ Last(types) \in EnumTypes /\ name.name \in EnumMembers(Last(types))
    THEN [k |-> "Enum", member |-> EnumMember(Last(types), name.name), type |-> Last(types)]
    ELSE _get_property(els, Last(_elements), name.name)

RECURSIVE _build_value(_, _, _)

\* _build_MemberAccess: the left side is built and evaluated, and has to be an
\* Element; the member is looked up from that element
_build_MemberAccess(els, member_access, types) ==
    LET built_value == _build_value(els, member_access.value, types)
        value == IF IsRaise(built_value) THEN built_value
                 ELSE eval(els, built_value, <<>>)
    IN  IF IsRaise(value) THEN value
        ELSE IF value.k # "Element" THEN Raise("AssertionError")
        ELSE _get_property(els, value.e, member_access.member)

\* _build of a value node
_build_value(els, node, types) ==
    CASE node.node = "Number" -> _build_Number(node)
      [] node.node = "Element" -> ElementValue(node.e)
      [] node.node = "String" -> _build_String(node)
      [] node.node = "Name" -> _build_Name(els, node, types)
      [] node.node = "MemberAccess" -> _build_MemberAccess(els, node, types)
      [] node.node = "BinOp" ->
            LET lhs == _build_value(els, node.lhs, types)
                rhs == _build_value(els, node.rhs, types)
            IN  IF IsRaise(lhs) THEN lhs ELSE IF IsRaise(rhs) THEN rhs
                ELSE BinOp(node.op, lhs, rhs)

(***************************************************************************)
(* The record of what ran.                                                 *)
(***************************************************************************)
Ev(ev, elem, name, idx) == [ev |-> ev, elem |-> elem, name |-> name, idx |-> idx]

\* the pending node is the idx-th child of the node the top frame walks
ChildIdx ==
    IF Top.k = "template" THEN Len(templates[Top.name].children) - Len(Top.todo) + 1 ELSE 0

\* a directive of a template body, or a child of a create node, is processed
Directive == Ev(IF Top.k = "template" THEN "template" ELSE "child", Top.elem, Top.name, ChildIdx)

(***************************************************************************)
(* define, assign                                                          *)
(***************************************************************************)
\* _build_Define registering the name before it builds the value
_build_Define_registers_first(d) ==
    /\ d.node = "Define"
    /\ Top.k \in {"create", "template"}
    /\ drawn' = Drawn
    /\ log' = Append(log, Directive)
    /\ LET r == define(elems, Last(_elements), d.name, Number(0), "", FALSE, FALSE)
           value == _build_value(r.els, d.value, _types)
       IN  IF r.raise # ""
           THEN Fail("Redefinition", d, {}) /\ elems' = r.els
           ELSE IF IsRaise(value)
           THEN Fail(value.exc, d, {}) /\ elems' = r.els
           ELSE /\ Done(d, "", Advanced)
                /\ elems' = [r.els EXCEPT ![Last(_elements)].props[d.name].value = value]
    /\ UNCHANGED <<templates, _elements, _types, search_paths, _including, _included,
                   files, built>>

\* _build_Define passing over ElementPropertyDefinedError and storing the value
_build_Define_overwrites(d) ==
    /\ d.node = "Define"
    /\ Top.k \in {"create", "template"}
    /\ drawn' = Drawn
    /\ log' = Append(log, Directive)
    /\ LET value == _build_value(elems, d.value, _types)
           e == Last(_elements)
           r == define(elems, e, d.name, value, "", FALSE, FALSE)
       IN  IF IsRaise(value)
           THEN Fail(value.exc, d, {}) /\ UNCHANGED elems
           ELSE IF r.raise # ""
           THEN /\ Done(d, "", Advanced)
                /\ elems' = [elems EXCEPT ![e].props[d.name].value = value]
           ELSE Done(d, "", Advanced) /\ elems' = r.els
    /\ UNCHANGED <<templates, _elements, _types, search_paths, _including, _included,
                   files, built>>

_build_Define(d) ==
    /\ d.node = "Define"
    /\ Top.k \in {"create", "template"}
    /\ drawn' = Drawn
    /\ log' = Append(log, Directive)
    /\ LET value == _build_value(elems, d.value, _types)
           r == define(elems, Last(_elements), d.name, value, "", FALSE, FALSE)
       IN  IF IsRaise(value)
           THEN Fail(value.exc, d, {}) /\ UNCHANGED elems
           ELSE IF r.raise # ""
           THEN Fail("Redefinition", d, {}) /\ elems' = r.els
           ELSE Done(d, "", Advanced) /\ elems' = r.els
    /\ UNCHANGED <<templates, _elements, _types, search_paths, _including, _included,
                   files, built>>

\* " -> ".join(map(attrgetter("name"), path)) for each path
PathNames(ps) == {[i \in 1..Len(path) |-> path[i][2]] : path \in ps}

\* _build_Assign taking self._elements[0] for the active element
_build_Assign_bottom(a) ==
    /\ a.node = "Assign"
    /\ Top.k \in {"create", "template"}
    /\ drawn' = Drawn
    /\ log' = Append(log, Directive)
    /\ LET e == _elements[1] IN
         IF IsRaise(get(elems, e, a.name))
         THEN Fail("AssignUndefined", a, {}) /\ UNCHANGED <<elems, _types>>
         ELSE LET type == elems[e].props[a.name].type
                  value == _build_value(elems, a.value, Append(_types, type))
                  r == set(elems, e, a.name, value)
              IN  IF IsRaise(value)
                  THEN Fail(value.exc, a, {}) /\ _types' = Append(_types, type)
                       /\ UNCHANGED elems
                  ELSE IF r.raise = "CircularReference"
                  THEN Fail(r.raise, a, PathNames(paths(elems, e, a.name, value)))
                       /\ elems' = r.els /\ UNCHANGED _types
                  ELSE IF r.raise # ""
                  THEN Fail(r.raise, a, {}) /\ elems' = r.els /\ UNCHANGED _types
                  ELSE Done(a, "", Advanced) /\ elems' = r.els /\ UNCHANGED _types
    /\ UNCHANGED <<templates, _elements, search_paths, _including, _included,
                   files, built>>

\* _build_Assign finding the property through _get_property (the ancestors)
_build_Assign_inherited(a) ==
    /\ a.node = "Assign"
    /\ Top.k \in {"create", "template"}
    /\ drawn' = Drawn
    /\ log' = Append(log, Directive)
    /\ LET found == _get_property(elems, Last(_elements), a.name) IN
         IF IsRaise(found)
         THEN Fail("AssignUndefined", a, {}) /\ UNCHANGED <<elems, _types>>
         ELSE LET e == found.e
                  type == elems[e].props[a.name].type
                  value == _build_value(elems, a.value, Append(_types, type))
                  r == set(elems, e, a.name, value)
              IN  IF IsRaise(value)
                  THEN Fail(value.exc, a, {}) /\ _types' = Append(_types, type)
                       /\ UNCHANGED elems
                  ELSE IF r.raise = "CircularReference"
                  THEN Fail(r.raise, a, PathNames(paths(elems, e, a.name, value)))
                       /\ elems' = r.els /\ UNCHANGED _types
                  ELSE IF r.raise # ""
                  THEN Fail(r.raise, a, {}) /\ elems' = r.els /\ UNCHANGED _types
                  ELSE Done(a, "", Advanced) /\ elems' = r.els /\ UNCHANGED _types
    /\ UNCHANGED <<templates, _elements, search_paths, _including, _included,
                   files, built>>

_build_Assign(a) ==
    /\ a.node = "Assign"
    /\ Top.k \in {"create", "template"}
    /\ drawn' = Drawn
    /\ log' = Append(log, Directive)
    /\ LET e == Last(_elements) IN
         IF IsRaise(get(elems, e, a.name))
         THEN Fail("AssignUndefined", a, {}) /\ UNCHANGED <<elems, _types>>
         ELSE LET type == elems[e].props[a.name].type
                  value == _build_value(elems, a.value, Append(_types, type))
                  r == set(elems, e, a.name, value)
              IN  IF IsRaise(value)
                  THEN Fail(value.exc, a, {}) /\ _types' = Append(_types, type)
                       /\ UNCHANGED elems
                  ELSE IF r.raise = "CircularReference"
                  THEN Fail(r.raise, a, PathNames(paths(elems, e, a.name, value)))
                       /\ elems' = r.els /\ UNCHANGED _types
                  ELSE IF r.raise # ""
                  THEN Fail(r.raise, a, {}) /\ elems' = r.els /\ UNCHANGED _types
                  ELSE Done(a, "", Advanced) /\ elems' = r.els /\ UNCHANGED _types
    /\ UNCHANGED <<templates, _elements, search_paths, _including, _included,
                   files, built>>

(***************************************************************************)
(* create                                                                  *)
(***************************************************************************)
\* parent.add(element): the containment rule of the parent's type
add(els, parent, child) ==
    IF els[parent].type \in DrawableTypes \cup {"Scene"}
    THEN BaseDrawable_add(els, parent, child)
    ELSE Outcome("", Element_add(els, parent, child))

\* Element.on_element: the parent is told of the child that was added to it
on_element(els, parent, child) == Outcome("", els)

\* _apply_template walking a Template's own children before its inherit target
CreateFrames_derived_first(create, e) ==
    LET chain == reversed(TemplateChain(create.element)) IN
        <<Frame("create", e, create.element, create.children, create.open)>>
        \o [i \in 1..Len(chain) |-> Frame("template", e, chain[i], templates[chain[i]].children, FALSE)]

\* _build_Create walking the node's children before it applies the template
CreateFrames_children_first(create, e) ==
    LET chain == TemplateChain(create.element) IN
        [i \in 1..Len(chain) |-> Frame("template", e, chain[i], templates[chain[i]].children, FALSE)]
        \o <<Frame("create", e, create.element, create.children, create.open)>>

\* the frames _apply_template opens for a create node: the node's own frame,
\* and above it one per Template of the chain, the base-most on top
CreateFrames(create, e) ==
    LET chain == TemplateChain(create.element) IN
        <<Frame("create", e, create.element, create.children, create.open)>>
        \o [i \in 1..Len(chain) |-> Frame("template", e, chain[i], templates[chain[i]].children, FALSE)]

Max(a, b) == IF a >= b THEN a ELSE b

\* reached through _build_Scene for the root of the document, and through
\* _build_children for a child of a create node or of a template; the children
\* of an included file's root that are create nodes are not visited.  A create
\* node with a name is refused with NotImplementedError before anything is
\* constructed.  After parent.add the parent's on_element hook is called.
_build_Create(create) ==
    /\ create.node \in {"Create", "Scene"}
    /\ create.node = "Scene" => ~_is_including
    /\ Top.k \notin {"include", "root"}
    /\ Len(elems) < MaxElems
    /\ drawn' = Drawn
    /\ LET t == _get_element_type(create.element, 0)
           e == Len(elems) + 1
           parent == IF _elements = <<>> THEN 0 ELSE Last(_elements)
           constructed == Append(elems, NewElement(t.type))
           added == IF parent = 0 THEN Outcome("", constructed)
                    ELSE add(constructed, parent, e)
           told == IF parent = 0 \/ added.raise # "" THEN added
                   ELSE on_element(added.els, parent, e)
           ready == on_ready(told.els, e)
           walked == IF Top.k = "document" THEN log ELSE Append(log, Directive)
           attached == IF parent = 0 THEN <<>>
                       ELSE <<Ev("attach", e, t.type, parent),
                              Ev("on_element", parent, t.type, e)>>
       IN  IF create.name # ""
           THEN /\ Fail("NotImplementedError", create, {})
                /\ log' = walked
                /\ UNCHANGED <<elems, _elements>>
           ELSE IF t.raise # ""
           THEN /\ Fail(t.raise, create, {})
                /\ log' = walked
                /\ UNCHANGED <<elems, _elements>>
           ELSE IF told.raise # ""
           THEN /\ Fail("CannotAdd", create, {})
                /\ elems' = told.els
                /\ log' = Append(walked, Ev("on_init", e, create.element, 0))
                /\ UNCHANGED _elements
           ELSE IF ready.raise # ""
           THEN /\ Fail(ready.raise, create, {})
                /\ elems' = ready.els
                /\ log' = Append(walked, Ev("on_init", e, create.element, 0)) \o attached
                /\ _elements' = _elements \o [i \in 1..Len(TemplateChain(create.element)) |-> e]
           ELSE /\ Done(create, "", Advanced \o CreateFrames(create, e))
                /\ elems' = ready.els
                /\ log' = Append(walked, Ev("on_init", e, create.element, 0)) \o attached
                          \o <<Ev("on_ready", e, t.type, 0)>>
                /\ _elements' = _elements
                        \o [i \in 1..Max(1, Len(TemplateChain(create.element))) |-> e]
    /\ UNCHANGED <<templates, _types, search_paths, _including, _included, files, built>>

\* _apply_template leaving the element it pushed on the stack
TemplateReturn_keeps_pushed ==
    /\ pc = "building" /\ frames # <<>>
    /\ Top.k = "template" /\ Top.todo = <<>>
    /\ Done(Create(Top.name, <<>>, FALSE), "applied", Front(frames))
    /\ _elements' = IF frames[Len(frames) - 1].k = "create"
                    THEN Append(_elements, Top.elem)
                    ELSE _elements
    /\ UNCHANGED <<templates, elems, _types, search_paths, _including, _included,
                   files, built, log, drawn>>

\* _apply_template, after the loop over a Template's children: the element is
\* popped; when that was the create node's own template, _build_Create goes on
\* and pushes the element for the node's children
TemplateReturn ==
    /\ pc = "building" /\ frames # <<>>
    /\ Top.k = "template" /\ Top.todo = <<>>
    /\ IF Last(_elements) # Top.elem
       THEN /\ Fail("AssertionError", Create(Top.name, <<>>, FALSE), {})
            /\ _elements' = Front(_elements)
       ELSE /\ Done(Create(Top.name, <<>>, FALSE), "applied", Front(frames))
            /\ _elements' = IF frames[Len(frames) - 1].k = "create"
                            THEN Append(Front(_elements), Top.elem)
                            ELSE Front(_elements)
    /\ UNCHANGED <<templates, elems, _types, search_paths, _including, _included,
                   files, built, log, drawn>>

\* Element.on_created: the hook that validates the element once its children
\* are built; no element type of drawables.py has a hook of its own
on_created(els, e) == Outcome("", els)

\* _build_Create, after the loop over the node's children: pop, on_created, return;
\* an ElementError of on_created is raised as a build error
CreateReturn ==
    /\ pc = "building" /\ frames # <<>>
    /\ Top.k = "create" /\ Top.todo = <<>>
    /\ _elements' = Front(_elements)
    /\ LET created == on_created(elems, Top.elem)
           called == Append(log, Ev("on_created", Top.elem, elems[Top.elem].type, 0))
       IN  IF Last(_elements) # Top.elem
           THEN /\ Fail("AssertionError", Create(Top.name, <<>>, FALSE), {})
                /\ UNCHANGED <<elems, log>>
           ELSE IF created.raise # ""
           THEN /\ Fail(created.raise, Create(Top.name, <<>>, FALSE), {})
                /\ elems' = created.els
                /\ log' = called
           ELSE /\ Done(Create(Top.name, <<>>, FALSE), "created", Front(frames))
                /\ elems' = created.els
                /\ log' = called
    /\ UNCHANGED <<templates, _types, search_paths, _including, _included,
                   files, built, drawn>>

(***************************************************************************)
(* build                                                                   *)
(***************************************************************************)
\* the templates a build starts from: the element types by name
SeedTemplates == [n \in TemplateNames |-> IF n \in ElementTypes THEN ElementType ELSE NoTemplate]

\* build(string), up to the call of self._build on the document's root
build ==
    /\ pc = "idle"
    /\ templates' = SeedTemplates
    /\ _elements' = <<>>
    /\ _types' = <<>>
    /\ pc' = "building"
    /\ frames' = <<Frame("document", 0, "", <<Scene(<<>>, TRUE)>>, FALSE)>>
    /\ op' = Visited(Scene(<<>>, TRUE), "build")
    /\ UNCHANGED <<elems, search_paths, _including, _included, files, built, err,
                   after, log, drawn>>

\* build, after self._build returned the scene
BuildReturn ==
    /\ pc = "building" /\ frames # <<>>
    /\ Top.k = "document" /\ Top.todo = <<>>
    /\ _elements' = <<>>
    /\ _types' = <<>>
    /\ pc' = "returned"
    /\ frames' = <<>>
    /\ op' = Visited(Scene(<<>>, TRUE), "returned")
    /\ UNCHANGED <<templates, elems, search_paths, _including, _included, files,
                   built, err, after, log, drawn>>

\* build(string) called again on the builder whose earlier build returned its
\* Scene or raised: templates, _elements and _types are set anew; search_paths,
\* _including and _included are what the earlier build left.  The elements,
\* the log and the per-build file counts are those of the new build, and no
\* exception is pending.
rebuild ==
    /\ pc \in {"returned", "raised"}
    /\ templates' = SeedTemplates
    /\ _elements' = <<>>
    /\ _types' = <<>>
    /\ pc' = "building"
    /\ frames' = <<Frame("document", 0, "", <<Scene(<<>>, TRUE)>>, FALSE)>>
    /\ op' = Visited(Scene(<<>>, TRUE), "build")
    /\ elems' = <<>>
    /\ log' = <<>>
    /\ built' = [f \in AbsFiles |-> 0]
    /\ err' = ""
    /\ after' = {}
    /\ UNCHANGED <<search_paths, _including, _included, files, drawn>>

\* build, when self._build returned None for the root: _build_Scene took the
\* document's root for the root of an included file, and the assertion that
\* the result is a Scene fails before _elements and _types are cleared
BuildAsserts ==
    /\ pc = "building" /\ frames # <<>>
    /\ Top.k = "root" /\ Top.todo = <<>>
    /\ Fail("AssertionError", Scene(<<>>, TRUE), {})
    /\ UNCHANGED <<templates, elems, _elements, _types, search_paths, _including,
                   _included, files, built, log, drawn>>

\* the consumer of the built Scene reads a property: its value, and its pixels
evaluate(e, name) ==
    /\ pc = "returned"
    /\ HasProp(elems, e, name)
    /\ op' = Visited([node |-> "Eval", e |-> e, name |-> name,
                      value |-> eval(elems, get(elems, e, name), <<>>),
                      pixels |-> resolve(elems, e, name)], "evaluated")
    /\ UNCHANGED <<templates, elems, _elements, _types, search_paths, _including,
                   _included, files, built, frames, pc, err, after, log, drawn>>

\* SceneBuilder.__init__
Init ==
    /\ templates = [n \in TemplateNames |-> NoTemplate]
    /\ elems = <<>>
    /\ _elements = <<>>
    /\ _types = <<>>
    /\ search_paths = <<_scenes_dir>>
    /\ _including = <<>>
    /\ _included = {}
    /\ files = [f \in AbsFiles |-> Unread]
    /\ built = [f \in AbsFiles |-> 0]
    /\ frames = <<>>
    /\ pc = "idle"
    /\ err = ""
    /\ after = {}
    /\ op = Visited(Scene(<<>>, TRUE), "init")
    /\ log = <<>>
    /\ drawn = 0

(***************************************************************************)
(* Specification of the include directive: a document of include and       *)
(* template directives over the files of AbsFiles.                         *)
(***************************************************************************)
IncludeDocNodes ==
    {Include(p) : p \in IncludePaths} \cup {Template("T", "", <<>>)}

NextInclude ==
    \/ build
    \/ \E d \in Pending(IncludeDocNodes) : _build_Create(d)
    \/ \E d \in Pending(IncludeDocNodes) : _build_Include(d)
    \/ \E d \in Pending(IncludeDocNodes) : _build_Template(d)
    \/ \E d \in Pending(IncludeDocNodes) : _build_Scene_skip(d)
    \/ IncludeReturn
    \/ CreateReturn
    \/ BuildReturn

SpecInclude == Init /\ [][NextInclude]_vars

\* an include runs to completion: _include is one synchronous call, so the
\* visitor of the next child of an included file, or the return from the
\* file, is taken when it can be
SpecIncludeRuns ==
    /\ SpecInclude
    /\ WF_vars(\E d \in Pending(IncludeDocNodes) : _build_Include(d))
    /\ WF_vars(\E d \in Pending(IncludeDocNodes) : _build_Template(d))
    /\ WF_vars(\E d \in Pending(IncludeDocNodes) : _build_Scene_skip(d))
    /\ WF_vars(IncludeReturn)

(***************************************************************************)
(* Specification of a builder that is used for more than one build: the    *)
(* documents of SpecInclude, built one after the other on one builder.     *)
(***************************************************************************)
NextRebuild ==
    \/ build
    \/ rebuild
    \/ \E d \in Pending(IncludeDocNodes) : _build_Scene_including(d)
    \/ BuildAsserts
    \/ \E d \in Pending(IncludeDocNodes) : _build_Create(d)
    \/ \E d \in Pending(IncludeDocNodes) : _build_Include(d)
    \/ \E d \in Pending(IncludeDocNodes) : _build_Template(d)
    \/ \E d \in Pending(IncludeDocNodes) : _build_Scene_skip(d)
    \/ IncludeReturn
    \/ CreateReturn
    \/ BuildReturn

SpecRebuild == Init /\ [][NextRebuild]_vars


(***************************************************************************)
(* Specification of templates and the life of an element: a document that  *)
(* declares templates and creates elements from them.                      *)
(***************************************************************************)
TemplateBodies ==
    { <<>>,
      <<Define("a", NumberNode(1, "")), Assign("width", NumberNode(50, "%"))>>,
      <<Create("Rectangle", <<>>, FALSE)>> }

TemplateDocNodes ==
    {Template(n, i, b) : n \in UserTemplates, i \in {"", "Rectangle"} \cup UserTemplates,
                         b \in TemplateBodies}
    \cup {Template("Rectangle", "", <<>>)}
    \cup {Create(t, <<>>, TRUE) : t \in {"Rectangle"} \cup UserTemplates}
    \cup {Define(n, v) : n \in {"a", "width"}, v \in {NumberNode(1, ""), StringNode("x")}}

NextTemplate ==
    \/ build
    \/ \E d \in Pending(TemplateDocNodes) : _build_Template(d)
    \/ \E d \in Pending(TemplateDocNodes) : _build_Create(d)
    \/ \E d \in Pending(TemplateDocNodes) : _build_Define(d)
    \/ \E d \in Pending(TemplateDocNodes) : _build_Assign(d)
    \/ TemplateReturn
    \/ CreateReturn
    \/ BuildReturn

SpecTemplate == Init /\ [][NextTemplate]_vars

(***************************************************************************)
(* Specification of attachment: a document of nested create nodes, of      *)
(* drawables, animations and scenes.                                       *)
(***************************************************************************)
AttachDocNodes ==
    {Create(t, <<>>, TRUE) : t \in {"Drawable", "Rectangle", "Image", "Animation"}}
    \cup {Named(Create("Rectangle", <<>>, FALSE), "r")}
    \cup {Scene(<<>>, TRUE)}

NextAttach ==
    \/ build
    \/ \E d \in Pending(AttachDocNodes) : _build_Create(d)
    \/ CreateReturn
    \/ BuildReturn

SpecAttach == Init /\ [][NextAttach]_vars

(***************************************************************************)
(* Specification of the shapes: a document that creates rectangles and     *)
(* circles in a Scene and assigns their sizes, and a consumer that         *)
(* evaluates the properties of the Scene that was built.                   *)
(***************************************************************************)
ShapeDocNodes ==
    {Create(t, <<>>, TRUE) : t \in {"Rectangle", "Circle"}}
    \cup {Assign("width", NumberNode(50, "%")), Assign("width", NumberNode(300, "")),
          Assign("diameter", NumberNode(50, "%"))}

ShapeProperties ==
    {"x", "y", "width", "height", "center_x", "center_y", "diameter", "radius"}

NextShapes ==
    \/ build
    \/ \E d \in Pending(ShapeDocNodes) : _build_Create(d)
    \/ \E d \in Pending(ShapeDocNodes) : _build_Assign(d)
    \/ CreateReturn
    \/ BuildReturn
    \/ \E e \in 1..Len(elems), n \in ShapeProperties : evaluate(e, n)

SpecShapes == Init /\ [][NextShapes]_vars

(***************************************************************************)
(* Specification of the property tables: a document that creates elements, *)
(* defines and assigns their properties.                                   *)
(***************************************************************************)
ValueNodes ==
    {NumberNode(7, ""), NumberNode(50, "%"), StringNode("x"), Name("a"), Name("width")}
    \cup {MemberAccess(ElementNode(e), "width") : e \in 1..Len(elems)}
    \cup {MemberAccess(Name("missing"), "width"), MemberAccess(Name("width"), "width")}

DocNodes ==
    {Create(t, <<>>, TRUE) : t \in {"Rectangle", "Image"}}
    \cup {Named(Create("Rectangle", <<>>, FALSE), "r")}
    \cup {Define(n, v) : n \in {"a", "b"}, v \in ValueNodes}
    \cup {Assign(n, v) : n \in {"a", "width", "index", "filename"}, v \in ValueNodes}

Next ==
    \/ build
    \/ \E d \in Pending(DocNodes) : _build_Create(d)
    \/ \E d \in Pending(DocNodes) : _build_Define(d)
    \/ \E d \in Pending(DocNodes) : _build_Assign(d)
    \/ CreateReturn
    \/ BuildReturn

Spec == Init /\ [][Next]_vars

(***************************************************************************)
(* Claims.                                                                 *)
(***************************************************************************)
InProgress == {_including[i] : i \in 1..Len(_including)}

\* the step is a visit of an include directive by _build_Include
IncludeVisit ==
    /\ op'.node.node = "Include"
    /\ op'.outcome \in {"skipped", "building", "IncludeNotFound"}

\* the include directive resolves to a file that is being or has been included
ResolvesToSeen(path) ==
    LET found == _find_scene_file(path) IN
        found.raise = "" /\ found.filename \in InProgress \cup _included

\* C1: within one build no file's syntax tree is built twice, and an include
\* directive that resolves to a file in progress or already included returns
\* without raising and changes neither the template registry, the elements,
\* the search paths nor the include tracking.
C1_IncludeOnce ==
    /\ [](\A f \in AbsFiles : built[f] <= 1)
    /\ [][IncludeVisit /\ ResolvesToSeen(op'.node.path) =>
            /\ op'.outcome = "skipped"
            /\ pc' = "building" /\ err' = ""
            /\ UNCHANGED <<templates, elems, _elements, search_paths, _including,
                           _included, built>>]_vars

\* an include was skipped two files deep because it leads back to the first
\* file of the chain, after another file had been included in full
C1_Witness ==
    /\ op.node.node = "Include" /\ op.outcome = "skipped"
    /\ Len(_including) = 2
    /\ _find_scene_file(op.node.path).filename = _including[1]
    /\ _included # {}


\* the element a define or assign directive is applied to
Active == Last(_elements)

\* the step is a visit of an assign directive by _build_Assign
AssignVisit == op'.node.node = "Assign" /\ _elements # <<>>

\* the step is a visit of a define directive by _build_Define
DefineVisit == op'.node.node = "Define" /\ _elements # <<>>

\* the value _build_Assign builds for the assign directive `a`
AssignedValue(a) ==
    _build_value(elems, a.value, Append(_types, elems[Active].props[a.name].type))

\* the assigned property exists, takes assignments, and the directive's value builds
Assignable(a) ==
    /\ HasProp(elems, Active, a.name)
    /\ ~elems[Active].props[a.name].readonly
    /\ ~elems[Active].props[a.name].constant
    /\ ~IsRaise(AssignedValue(a))

\* storing the directive's value would make the property reachable from itself
ClosesCycle(a) ==
    Cycles([elems EXCEPT ![Active].props[a.name].value = AssignedValue(a)],
           <<Active, a.name>>) # {}

Acyclic(els) == \A pr \in Pairs(els) : Cycles(els, pr) = {}

\* C2: the reference graph over (element, property) pairs stays acyclic, and
\* an assign whose value would make the assigned property reachable from itself
\* fails with the circular-reference error and changes no property.
C2_NoReferenceCycle ==
    /\ [](Acyclic(elems))
    /\ [][AssignVisit /\ Assignable(op'.node) /\ ClosesCycle(op'.node) =>
            err' = "CircularReference" /\ pc' = "raised" /\ elems' = elems]_vars

\* an assign was refused because it would have closed a cycle through a
\* second property
C2_Witness ==
    /\ err = "CircularReference"
    /\ op.node.node = "Assign"
    /\ \E path \in paths(elems, Active, op.node.name,
                         _build_value(elems, op.node.value, <<>>)) : Len(path) >= 3

\* C3 as stated: an assign to a ReadOnly property fails with the readonly error
\* and stores nothing, and an assign of a type-compatible value to any property
\* without ReadOnly succeeds, stores the value, and get followed by evaluate
\* gives what the value evaluates to.  It fails for an assign to the Constant
\* filename of an Image, for an assign to the ReadOnly index of a name that is
\* undefined, and for an assign to width of the name width.
C3_AssignUnlessReadOnly ==
    [][AssignVisit /\ HasProp(elems, Active, op'.node.name) =>
            LET prop == elems[Active].props[op'.node.name]
                value == AssignedValue(op'.node)
            IN  IF prop.readonly
                THEN err' = "Readonly" /\ elems' = elems
                ELSE (~IsRaise(value) /\ TypeCompatible(prop, value)) =>
                        /\ err' = ""
                        /\ elems'[Active].props[op'.node.name].value = value
                        /\ eval(elems', get(elems', Active, op'.node.name), <<>>)
                             = eval(elems', value, <<>>)]_vars

\* C3, amended: an assign whose value fails to build fails with the error of
\* the value and stores nothing, whatever the flags of the property; otherwise
\* an assign to a ReadOnly property fails with the readonly error and an assign
\* to a Constant property without ReadOnly fails with the constant error, and
\* both store nothing; an assign of a type-compatible value that closes no
\* reference cycle to a property with neither flag succeeds, the property then
\* holds the assigned value, and get followed by evaluate gives what the value
\* evaluates to.
C3_AssignUnlessFlagged ==
    [][AssignVisit /\ HasProp(elems, Active, op'.node.name) =>
            LET prop == elems[Active].props[op'.node.name]
                value == AssignedValue(op'.node)
            IN  IF IsRaise(value)
                THEN err' = value.exc /\ pc' = "raised" /\ elems' = elems
                ELSE IF prop.readonly
                THEN err' = "Readonly" /\ pc' = "raised" /\ elems' = elems
                ELSE IF prop.constant
                THEN err' = "Constant" /\ pc' = "raised" /\ elems' = elems
                ELSE (TypeCompatible(prop, value) /\ ~ClosesCycle(op'.node)) =>
                        /\ err' = "" /\ pc' = "building"
                        /\ elems'[Active].props[op'.node.name].value = value
                        /\ eval(elems', get(elems', Active, op'.node.name), <<>>)
                             = eval(elems', value, <<>>)]_vars

\* an assign to the ReadOnly index was refused, after an assign to width of a
\* nested element had stored a plain number
C3_Witness ==
    /\ err = "Readonly"
    /\ op.node.node = "Assign" /\ op.node.name = "index"
    /\ Active > 1
    /\ elems[Active].props["width"].value = Number(7)


\* the property `name` of the active element exists and the directive's value builds
Redefines(d) ==
    /\ HasProp(elems, Active, d.name)
    /\ ~IsRaise(_build_value(elems, d.value, _types))

\* C4: a define directive whose name is already in the active element's own
\* property table fails with the Redefinition error and changes no property;
\* a property that exists changes only by an assign directive that succeeds.
C4_DefineOnce ==
    /\ [][DefineVisit /\ Redefines(op'.node) =>
            err' = "Redefinition" /\ pc' = "raised" /\ elems' = elems]_vars
    /\ [][\A e \in 1..Len(elems) : \A n \in DOMAIN elems[e].props :
            elems'[e].props[n] # elems[e].props[n] =>
                op'.node.node = "Assign" /\ op'.outcome = "" /\ err' = ""]_vars

Events(e, evs) == {i \in 1..Len(log) : log[i].elem = e /\ log[i].ev \in evs}

\* a define among the create node's own children was refused because a template
\* directive had defined the name on the element
C4_Witness ==
    /\ err = "Redefinition"
    /\ op.node.node = "Define" /\ op.node.name = "a"
    /\ log[Len(log)].ev = "child"
    /\ Events(Active, {"template"}) # {}

\* the names TemplateChain passes through after `name`
Ancestors(name) == {TemplateChain(name)[i] : i \in 2..Len(TemplateChain(name))}

\* the name element e's create node names
CreatedAs(e) == log[CHOOSE i \in Events(e, {"on_init"}) : TRUE].name

\* C5: for every element, on_ready runs once and before every template
\* directive; the directives of a template run after those of the templates it
\* inherits from, each template's own in declared order; the create node's own
\* children run after every directive of the whole chain.
C5_BaseFirst ==
    \A e \in 1..Len(elems) :
        LET R == Events(e, {"on_ready"})
            T == Events(e, {"template"})
            K == Events(e, {"child", "on_created"})
        IN  /\ Cardinality(R) <= 1
            /\ T \cup K # {} => R # {}
            /\ \A r \in R, i \in T : r < i
            /\ \A i \in T, j \in T :
                 i < j => IF log[i].name = log[j].name THEN log[i].idx < log[j].idx
                          ELSE log[i].name \in Ancestors(log[j].name)
            /\ \A i \in T, k \in K : i < k
            /\ K # {} =>
                 \A n \in 1..Len(TemplateChain(CreatedAs(e))) :
                    LET t == TemplateChain(CreatedAs(e))[n] IN
                        \A x \in 1..Len(templates[t].children) :
                            \E i \in T : log[i].name = t /\ log[i].idx = x

\* an element of a template U that inherits template T that inherits Rectangle
\* has run directives of T, then of U, then a child of its create node
C5_Witness ==
    \E e \in 1..Len(elems) : \E i, j, k \in 1..Len(log) :
        /\ i < j /\ j < k
        /\ log[i] = Ev("template", e, "T", 2)
        /\ log[j] = Ev("template", e, "U", 1)
        /\ log[k].ev = "child" /\ log[k].elem = e
        /\ templates["T"].inherit = "Rectangle"

\* the place of a lifecycle step in an element's life
Rank(ev) ==
    CASE ev = "on_init" -> 1 [] ev = "attach" -> 2 [] ev = "on_ready" -> 3
      [] ev = "template" -> 4 [] ev = "child" -> 5 [] ev = "on_created" -> 6

AllEvents == {"on_init", "attach", "on_ready", "template", "child", "on_created"}

\* C6: every element's steps run in the order on_init, attachment, on_ready,
\* template directives, own children, on_created; the hooks and the attachment
\* run once; no step runs before the steps that precede it (attachment only
\* when there is a parent); a parent's on_ready precedes its child's on_init and
\* a child's on_created precedes its parent's.
C6_Lifecycle ==
    \A e \in 1..Len(elems) :
        LET E == Events(e, AllEvents) IN
            /\ \A i \in E, j \in E : i < j => Rank(log[i].ev) <= Rank(log[j].ev)
            /\ \A ev \in {"on_init", "attach", "on_ready", "on_created"} :
                 Cardinality(Events(e, {ev})) <= 1
            /\ \A i \in E :
                 /\ Rank(log[i].ev) > 1 => Events(e, {"on_init"}) # {}
                 /\ Rank(log[i].ev) > 2 => (Events(e, {"attach"}) # {} <=> elems[e].parent # 0)
                 /\ Rank(log[i].ev) > 3 => Events(e, {"on_ready"}) # {}
            /\ elems[e].parent # 0 =>
                 /\ \A i \in Events(e, {"on_init"}) :
                      \E r \in Events(elems[e].parent, {"on_ready"}) : r < i
                 /\ \A i \in Events(elems[e].parent, {"on_created"}) :
                      \E c \in Events(e, {"on_created"}) : c < i

\* the build returned a scene whose child, created from a template with
\* directives, had a child of its own
C6_Witness ==
    /\ pc = "returned"
    /\ \E e \in 1..Len(elems) :
        /\ elems[e].parent = 1
        /\ elems[e].children # <<>>
        /\ Events(e, {"template"}) # {}
        /\ Events(e, {"child"}) # {}

\* C7: creating an element from a template never runs into the interpreter's
\* recursion limit: type resolution ends at a concrete type or a build error.
C7_InheritanceTerminates == err # "RecursionError"

\* the step is a visit of a template directive by _build_Template
TemplateVisit == op'.node.node = "Template"

\* C8: a template directive whose name is registered fails with the
\* Redeclaration error and leaves the registry as it is, and no entry of the
\* registry, element type or template, is ever replaced.
C8_TemplatesUnique ==
    /\ [][TemplateVisit /\ templates[op'.node.name].kind # "none" =>
            err' = "Redeclaration" /\ pc' = "raised" /\ templates' = templates]_vars
    /\ [][\A n \in TemplateNames :
            templates[n].kind # "none" => templates'[n] = templates[n]]_vars

\* a template directive named Rectangle was refused after a template of the
\* document had been registered
C8_Witness ==
    /\ err = "Redeclaration"
    /\ op.node.node = "Template" /\ op.node.name = "Rectangle"
    /\ templates["Rectangle"] = ElementType
    /\ \E n \in UserTemplates : templates[n].kind = "template"


\* the elements from e up to the root
RECURSIVE ChainOf(_, _)
ChainOf(els, e) == IF e = 0 THEN <<>> ELSE <<e>> \o ChainOf(els, els[e].parent)

\* the property `name` of the first element of e's chain that defines it
Nearest(els, e, name) ==
    LET chain == ChainOf(els, e)
        hits == {i \in 1..Len(chain) : name \in DOMAIN els[chain[i]].props}
    IN  IF hits = {} THEN Raise("UndefinedProperty")
        ELSE Property(chain[CHOOSE i \in hits : \A j \in hits : i <= j], name)

LookupNames == {"a", "b", "width", "index", "filename", "missing"}

\* the element a name or member access of a directive's value is looked up from
LookupStart(value) == IF value.node = "Name" THEN Active ELSE value.value.e

\* C9: a property name resolves, from any element, to the property of the
\* nearest element of its chain to the root that defines the name, and fails as
\* undefined exactly when none does; a define or assign directive whose value is
\* a name, or a member access of an expression that is an element, stores that
\* property or fails with that error.
C9_NearestDefinition ==
    /\ [](\A e \in 1..Len(elems) : \A n \in LookupNames :
            _get_property(elems, e, n) = Nearest(elems, e, n))
    /\ [][(DefineVisit \/ AssignVisit) /\ op'.node.value.node \in {"Name", "MemberAccess"}
            /\ (op'.node.value.node = "MemberAccess" => op'.node.value.value.node = "Element")
            /\ (op'.node.node = "Assign" => HasProp(elems, Active, op'.node.name)) =>
            LET v == op'.node.value
                found == Nearest(elems, LookupStart(v), IF v.node = "Name" THEN v.name ELSE v.member)
            IN  /\ IsRaise(found) <=> err' = "UndefinedProperty"
                /\ op'.outcome = "" => elems'[Active].props[op'.node.name].value = found]_vars

\* a nested element took a name from its parent, defined the name itself, and
\* then resolved the name to its own property
C9_Witness ==
    /\ Len(elems) >= 2
    /\ elems[2].parent = 1
    /\ {"a", "b"} \subseteq DOMAIN elems[2].props
    /\ elems[2].props["a"].value = Property(1, "a")
    /\ elems[2].props["b"].value = Property(2, "a")

\* C10: when an assign fails with the circular-reference error, every reported
\* path lists the pairs of the cycle in order, and entries of the report that
\* stand for different (element, property) pairs differ.
C10_ReportTellsPairsApart ==
    err = "CircularReference" =>
        \A path \in paths(elems, Active, op.node.name,
                          _build_value(elems, op.node.value, <<>>)) :
            \E r \in after :
                /\ Len(r) = Len(path)
                /\ \A i \in 1..Len(path) : r[i] = path[i][2]
                /\ \A i, j \in 1..Len(path) : path[i] # path[j] => r[i] # r[j]

\* the templates the root of file f declares
DeclaredIn(f) ==
    {files[f][i].name : i \in {j \in 1..Len(files[f]) : files[f][j].node = "Template"}}

\* C11: a build is not influenced by an earlier build of the same builder: as
\* on a fresh builder, an include directive of the document that is passed over
\* (no include is in progress) leaves the document with the templates its file
\* declares.
C11_BuildsAreIndependent ==
    [][IncludeVisit /\ op'.outcome = "skipped" /\ _including = <<>> =>
        \A n \in DeclaredIn(_find_scene_file(op'.node.path).filename) :
            templates'[n].kind = "template"]_vars

\* C12: the includes in progress are never nested deeper than there are files,
\* and every include that is in progress returns (the nesting gets shallower)
\* or the build raises.
C12_IncludeTerminates ==
    /\ [](Len(_including) <= Cardinality(AbsFiles))
    /\ \A n \in 1..Cardinality(AbsFiles) :
          (pc = "building" /\ Len(_including) = n)
              ~> (pc = "raised" \/ Len(_including) < n)

\* two files that include each other have both been included in full
C12_Witness ==
    /\ op.outcome = "included" /\ _including = <<>>
    /\ files[<<"lib", "a">>] = <<Include(<<"b">>)>>
    /\ files[<<"lib", "b">>] = <<Include(<<"a">>)>>
    /\ {<<"lib", "a">>, <<"lib", "b">>} \subseteq _included

\* C13: a create node whose element its drawable parent rejects fails the
\* build, and the parent's children, elements and animations are what they
\* were before the attachment was tried.
C13_RejectedChildNotAttached ==
    [][err' = "CannotAdd" /\ elems[Last(_elements)].type \in DrawableTypes =>
        LET parent == Last(_elements) IN
            /\ pc' = "raised"
            /\ elems'[parent].children = elems[parent].children
            /\ elems'[parent].elements = elems[parent].elements
            /\ elems'[parent].animations = elems[parent].animations]_vars

\* the last step evaluated a property of the built Scene
Evaluated == op.outcome = "evaluated"
\* the element whose property the last step evaluated is a direct child of the
\* Scene, of the given type
ChildOfScene(type) ==
    /\ Evaluated
    /\ elems[op.node.e].type = type
    /\ elems[op.node.e].parent # 0
    /\ elems[elems[op.node.e].parent].type = "Scene"

\* C14: a stored Percentage p of a property that is relative to a dimension
\* evaluates to p/100 of what the parent's property of that dimension evaluates
\* to; in a Scene of width 200 a Rectangle's width evaluates to 200 by default
\* and to 100 once it is assigned 50%.
C14_PercentageOfParent ==
    Evaluated =>
        LET e == op.node.e
            prop == elems[e].props[op.node.name]
            parent == elems[e].parent
        IN  /\ prop.value.k = "Percentage" /\ prop.relative # "" /\ parent # 0 =>
                LET base == resolve(elems, parent, prop.relative) IN
                    /\ base.k = "Number"
                    /\ op.node.pixels = Number((prop.value.v * base.v) \div 100)
            /\ ChildOfScene("Rectangle") /\ op.node.name = "width"
                  /\ elems[parent].props["width"].value = Number(200) =>
                /\ prop.value = Percentage(100) => op.node.pixels = Number(200)
                /\ prop.value = Percentage(50) => op.node.pixels = Number(100)

\* the width of a Rectangle in a Scene of width 200 was assigned 50% and
\* evaluated to 100
C14_Witness ==
    /\ ChildOfScene("Rectangle") /\ op.node.name = "width"
    /\ elems[elems[op.node.e].parent].props["width"].value = Number(200)
    /\ elems[op.node.e].props["width"].value = Percentage(50)
    /\ op.node.pixels = Number(100)

\* what the width of the parent of element e evaluates to
ParentWidth(e) == resolve(elems, elems[e].parent, "width")

\* C15: a Circle's radius is stored as the expression diameter / 2, so it
\* evaluates to half of what the diameter's percentage of the parent's width
\* is: 75 for a diameter of 50% in a parent whose width evaluates to 300.
C15_RadiusIsHalfDiameter ==
    /\ \A e \in 1..Len(elems) :
          elems[e].type = "Circle" /\ HasProp(elems, e, "radius") =>
              elems[e].props["radius"].value = BinOp("/", Property(e, "diameter"), Number(2))
    /\ Evaluated /\ elems[op.node.e].type = "Circle" /\ op.node.name = "radius" =>
          LET e == op.node.e
              diameter == elems[e].props["diameter"].value
          IN  diameter.k = "Percentage" /\ ParentWidth(e).k = "Number" =>
                /\ op.node.pixels = Number(((ParentWidth(e).v * diameter.v) \div 100) \div 2)
                /\ ParentWidth(e) = Number(300) /\ diameter = Percentage(50) =>
                      op.node.pixels = Number(75)

\* the radius of a Circle with a diameter of 50%, in a parent whose width
\* evaluates to 300, evaluated to 75
C15_Witness ==
    /\ Evaluated /\ elems[op.node.e].type = "Circle" /\ op.node.name = "radius"
    /\ elems[op.node.e].props["diameter"].value = Percentage(50)
    /\ ParentWidth(op.node.e) = Number(300)
    /\ op.node.pixels = Number(75)

\* the element whose property was evaluated is a Circle that is a direct child
\* of the Scene and has the properties on_ready gave it, none assigned since
DefaultCircle ==
    /\ ChildOfScene("Circle")
    /\ elems[op.node.e].props["diameter"].value = Percentage(100)
    /\ elems[op.node.e].props["width"].value
           = BinOp("*", Property(op.node.e, "radius"), Number(2))

\* C18: each of x, y, width, height, center_x, center_y, diameter and radius of
\* a Circle with its default properties, in a Scene, evaluates to a number:
\* none raises a circular-reference error or a type error.
C18_CircleDefaultsEvaluate ==
    DefaultCircle /\ op.node.name \in ShapeProperties =>
        /\ op.node.value.k \in {"Number", "Percentage"}
        /\ op.node.pixels.k = "Number"

\* the x of a default Circle, which is read through center_x, width, radius and
\* diameter, evaluated to a percentage and to pixels
C18_Witness ==
    /\ DefaultCircle /\ op.node.name = "x"
    /\ op.node.value.k = "Percentage"
    /\ op.node.pixels.k = "Number"
    /\ Refs(elems[op.node.e].props["x"].value)
          = {<<op.node.e, "center_x">>, <<op.node.e, "width">>}

\* C16: an assign directive looks the name up in the active element's own
\* table only: when the name is defined on an ancestor and not on the active
\* element, the assign fails as undefined and changes no property, although
\* the name, read from the active element, resolves to the ancestor's property.
C16_AssignOwnTableOnly ==
    [][AssignVisit /\ ~HasProp(elems, Active, op'.node.name) =>
            /\ err' = "AssignUndefined" /\ pc' = "raised"
            /\ elems' = elems
            /\ (\E c \in 2..Len(ChainOf(elems, Active)) :
                    HasProp(elems, ChainOf(elems, Active)[c], op'.node.name))
                => ~IsRaise(_get_property(elems, Active, op'.node.name))]_vars

\* an assign of a name that the parent defines and the active element does not
\* was refused
C16_Witness ==
    /\ err = "AssignUndefined"
    /\ op.node.node = "Assign"
    /\ elems[Active].parent # 0
    /\ ~HasProp(elems, Active, op.node.name)
    /\ HasProp(elems, elems[Active].parent, op.node.name)
    /\ _get_property(elems, Active, op.node.name)
          = Property(elems[Active].parent, op.node.name)

\* C17: a step taken while an include is in progress, the steps that begin and
\* end it included, changes no element and not the element stack, and runs no
\* lifecycle hook or directive of an element; a child of an included file's
\* root that is no include and no template directive is passed over.
C17_IncludeBuildsNoElement ==
    /\ [][_is_including \/ Len(_including') > 0 =>
            /\ elems' = elems /\ _elements' = _elements /\ log' = log
            /\ _types' = _types]_vars
    /\ [][_is_including /\ op'.node.node \in {"Create", "Scene", "Define", "Assign"} =>
            op'.outcome = "skipped"]_vars

\* a create node of an included file's root was passed over, the Scene of the
\* document being the active element
C17_Witness ==
    /\ op.node.node = "Create" /\ op.outcome = "skipped"
    /\ _is_including
    /\ _elements = <<1>> /\ Len(elems) = 1
    /\ \E n \in UserTemplates : templates[n].kind = "template"

\* each entry of the stack is the entry below it or a child of it, from the root
StackIsChain ==
    /\ _elements # <<>> => elems[_elements[1]].parent = 0
    /\ \A i \in 2..Len(_elements) :
          \/ _elements[i] = _elements[i - 1]
          \/ elems[_elements[i]].parent = _elements[i - 1]

\* C19: during a build the element stack is a chain from the root; while the
\* children of a create node or of a template are walked its top is the element
\* of that node or the element the template is applied to, and a define or
\* assign directive changes that element only; no pop finds another element
\* than the one pushed, and the stack is empty before and after the root create.
C19_ElementStack ==
    /\ [](pc = "building" =>
            /\ StackIsChain
            /\ Top.k \in {"create", "template"} =>
                  _elements # <<>> /\ Last(_elements) = Top.elem
            /\ Top.k = "document" => _elements = <<>>)
    /\ [](err # "AssertionError")
    /\ [][(DefineVisit \/ AssignVisit) =>
            /\ Active = Top.elem
            /\ \A e \in 1..Len(elems) : e # Top.elem => elems'[e] = elems[e]]_vars

\* an element is created by a directive of the base template of the element
\* below it, which was pushed once for each of its two templates
C19_Witness ==
    /\ pc = "building"
    /\ _elements = <<1, 2, 2, 3>>
    /\ Top.k = "create" /\ Top.elem = 3
    /\ frames[Len(frames) - 1].k = "template"

\* the files of the include directives being built, outermost first
BeingIncluded ==
    LET inc == SelectSeq(frames, LAMBDA f : f.k = "include")
    IN  [i \in 1..Len(inc) |-> inc[i].name]

\* C20: while no error was raised, search_paths is its initial entry followed
\* by the directory of each file of _including, innermost last; _including
\* ends with the files of the include directives being built, and is exactly
\* those files until a build raises; it holds no file twice and no file of
\* _included; the step that completes an include directive drops the last
\* entry of search_paths and of _including, which its first step had appended,
\* and adds to _included that file, which was not in it, and nothing else.
C20_IncludeBookkeeping ==
    /\ [](err = "" =>
            /\ search_paths = <<_scenes_dir>> \o
                  [i \in 1..Len(_including) |-> dirname(_including[i])]
            /\ SubSeq(_including, Len(_including) - Len(BeingIncluded) + 1,
                      Len(_including)) = BeingIncluded
            /\ \A i, j \in 1..Len(_including) : _including[i] = _including[j] => i = j
            /\ \A i \in 1..Len(_including) : _including[i] \notin _included)
    /\ [][IncludeVisit /\ op'.outcome = "building" =>
            LET filename == _find_scene_file(op'.node.path).filename IN
              /\ search_paths' = Append(search_paths, dirname(filename))
              /\ _including' = Append(_including, filename)
              /\ _included' = _included]_vars
    /\ [][op'.outcome = "included" =>
            /\ search_paths' = Front(search_paths)
            /\ _including' = Front(_including)
            /\ Last(_including) \notin _included
            /\ _included' = _included \cup {Last(_including)}]_vars
    /\ [][op'.outcome \notin {"included", "build"} => _included' = _included]_vars
    /\ [][_including = BeingIncluded /\ pc # "raised" /\ pc' # "raised" =>
            _including' = BeingIncluded']_vars

\* the include directive of an included file has completed: the file it named
\* is included, the file that holds it is still being included
C20_Witness ==
    /\ err = ""
    /\ op.outcome = "included"
    /\ op.node.path \in _included
    /\ Len(_including) = 1
    /\ _including[1] # op.node.path
    /\ search_paths = <<_scenes_dir, dirname(_including[1])>>
    /\ dirname(_including[1]) # _scenes_dir

====
